---- MODULE Spec2Model ----
(***************************************************************************)
(* Lex Arcana dice rolls: the pattern generator (patterns.py), the roll    *)
(* representation and its statistics (rolls.py) and the table builder      *)
(* (tables.py, probs.py), as state machines over the configured dice.      *)
(*                                                                         *)
(* Strings are sequences of one-character strings ("2d6" is                *)
(* <<"2","d","6">>); a Counter / dict is the sequence of its <<key, value>>*)
(* pairs in insertion order; a float is the exact rational <<num, den>>.   *)
(***************************************************************************)
EXTENDS Integers, Sequences, FiniteSets

(***************************************************************************)
(* Configuration (definitions.py)                                          *)
(***************************************************************************)
DICE == <<20, 12, 10, 8, 6, 5, 4, 3>>

MAX_LEN == 3

MinTarget == 3

MaxTarget == 21

DIFFICULTY_TARGETS == [i \in 1..(MaxTarget - MinTarget + 1) |-> i + MinTarget - 1]

(***************************************************************************)
(* Bounds of the model                                                     *)
(***************************************************************************)
\* budgets (Dice Points) run over 0..MaxBudget
MaxBudget == 20

\* names are made of 1..MaxTerms terms
MaxTerms == 2

\* a roll table covers 1..MaxSpan consecutive budgets
MaxSpan == 3

\* the rolls to beat are among the first MaxRivals options of a budget
MaxRivals == 2

\* success_probability is stepped for the targets -MaxBelow..MaxCallTarget
MaxBelow == 2

MaxCallTarget == 24

(***************************************************************************)
(* Helpers for Python built-ins                                            *)
(***************************************************************************)
Range(s) == {s[i] : i \in DOMAIN s}

Min(a, b) == IF a <= b THEN a ELSE b

RECURSIVE sum(_)
sum(s) == IF s = <<>> THEN 0 ELSE Head(s) + sum(Tail(s))

\* max of a non-empty sequence of integers
max(s) == CHOOSE m \in Range(s) : \A x \in Range(s) : x <= m

\* [x] * n
Rep(x, n) == [i \in 1..n |-> x]

(***************************************************************************)
(* patterns.py                                                             *)
(***************************************************************************)
\* a plausible slip: the number of repetitions not limited by max_len
LimitUnbounded(max_len, target, head) == target \div head

\* limit = min(max_len, target // head)
Limit(max_len, target, head) == Min(max_len, target \div head)

\* the base case of _build_patterns: what is yielded when no die can be added
BasePatterns(target, max_gap) == IF target <= max_gap THEN << <<>> >> ELSE <<>>

RECURSIVE _build_patterns(_, _, _, _)
RECURSIVE HeadLoop(_, _, _, _, _, _)
\* the patterns _build_patterns yields, in the order it yields them
_build_patterns(values, target, max_len, max_gap) ==
    IF max_len = 0 \/ values = <<>>
    THEN BasePatterns(target, max_gap)
    ELSE HeadLoop(values, target, max_len, max_gap, 0,
                  Limit(max_len, target, Head(values)))

\* the iterations reps, reps + 1, ..., limit of the loop over the repetitions
\* of the head; head_pattern holds reps copies of the head in iteration reps
HeadLoop(values, target, max_len, max_gap, reps, limit) ==
    IF reps > limit THEN <<>>
    ELSE LET head         == Head(values)
             tail         == Tail(values)
             new_target   == target - head * reps
             new_max_len  == max_len - reps
             head_pattern == Rep(head, reps)
             tails        == _build_patterns(tail, new_target, new_max_len, max_gap)
         IN  [i \in 1..Len(tails) |-> head_pattern \o tails[i]]
             \o HeadLoop(values, target, max_len, max_gap, reps + 1, limit)

\* valid_values = tuple(value for value in DICE if value <= target)
RECURSIVE ValuesUpTo(_, _)
ValuesUpTo(values, target) ==
    IF values = <<>> THEN <<>>
    ELSE (IF Head(values) <= target THEN <<Head(values)>> ELSE <<>>)
         \o ValuesUpTo(Tail(values), target)

valid_values(target) == ValuesUpTo(DICE, target)

\* the source's comment on this line, taken literally: the largest valid die
MaxGapLargestDie(target) == max(valid_values(target))

\* max_gap = target - max(valid_values)
MaxGap(target) == target - max(valid_values(target))

\* deduplicate(patterns), run to its end: the patterns yielded, in order
RECURSIVE DedupFrom(_, _)
DedupFrom(out, rest) ==
    IF rest = <<>> THEN out
    ELSE IF Head(rest) \in Range(out)
         THEN DedupFrom(out, Tail(rest))
         ELSE DedupFrom(Append(out, Head(rest)), Tail(rest))

deduplicate(pats) == DedupFrom(<<>>, pats)

\* list(build_patterns(t)) for a budget t that has a valid die
build_patterns(t) ==
    deduplicate(_build_patterns(valid_values(t), t, MAX_LEN, MaxGap(t)))

(***************************************************************************)
(* Python strings, as sequences of characters                              *)
(***************************************************************************)
Digits == <<"0", "1", "2", "3", "4", "5", "6", "7", "8", "9">>

\* str(n) of an integer n >= 0
RECURSIVE str(_)
str(n) == IF n < 10 THEN <<Digits[n + 1]>>
          ELSE str(n \div 10) \o <<Digits[(n % 10) + 1]>>

\* whether int(s) returns: s is one or more decimal digits (the strings of
\* the model hold no sign, blank or underscore)
IsInt(s) == s # <<>> /\ \A i \in DOMAIN s : s[i] \in Range(Digits)

DigitValue(c) == (CHOOSE d \in DOMAIN Digits : Digits[d] = c) - 1

\* int(s) where IsInt(s)
RECURSIVE int(_)
int(s) == IF Len(s) = 1 THEN DigitValue(s[1])
          ELSE int(SubSeq(s, 1, Len(s) - 1)) * 10 + DigitValue(s[Len(s)])

\* s.split(sep)
RECURSIVE split(_, _)
split(s, sep) ==
    IF \A i \in DOMAIN s : s[i] # sep THEN <<s>>
    ELSE LET i == CHOOSE k \in DOMAIN s :
                      s[k] = sep /\ \A j \in 1..(k - 1) : s[j] # sep
         IN  <<SubSeq(s, 1, i - 1)>> \o split(SubSeq(s, i + 1, Len(s)), sep)

\* sep.join(parts)
RECURSIVE join(_, _)
join(sep, parts) ==
    IF parts = <<>> THEN <<>>
    ELSE IF Len(parts) = 1 THEN parts[1]
    ELSE parts[1] \o <<sep>> \o join(sep, Tail(parts))

(***************************************************************************)
(* Python dicts and Counters, as <<key, value>> pairs in insertion order   *)
(***************************************************************************)
KeySet(d) == {d[i][1] : i \in DOMAIN d}

\* d[key], for a key of d
Get(d, key) == d[CHOOSE i \in DOMAIN d : d[i][1] = key][2]

\* d[key] = value: a new key goes last, an old key keeps its place
DictSet(d, key, value) ==
    IF key \in KeySet(d)
    THEN LET i == CHOOSE k \in DOMAIN d : d[k][1] = key
         IN  SubSeq(d, 1, i - 1) \o << <<key, value>> >> \o SubSeq(d, i + 1, Len(d))
    ELSE Append(d, <<key, value>>)

\* Counter(iterable): each distinct element with the number of times it
\* occurs, the elements in the order of their first occurrences
Counter(iterable) ==
    LET items  == SubSeq(iterable, 1, Len(iterable))
        firsts == {i \in DOMAIN items : \A j \in 1..(i - 1) : items[j] # items[i]}
        first  == [k \in 1..Cardinality(firsts) |->
                      CHOOSE i \in firsts : Cardinality({j \in firsts : j < i}) = k - 1]
    IN  SubSeq([k \in DOMAIN first |->
                   <<items[first[k]],
                     Cardinality({j \in DOMAIN items : items[j] = items[first[k]]})>>],
               1, Cardinality(firsts))

\* {key: value for key, value in items}: the keys in the order of their
\* first occurrences, each with the value of its last occurrence
DictOf(items) ==
    LET first == Counter([i \in DOMAIN items |-> items[i][1]])
    IN  SubSeq([k \in DOMAIN first |->
                   LET last == CHOOSE i \in DOMAIN items :
                                   /\ items[i][1] = first[k][1]
                                   /\ \A j \in DOMAIN items :
                                          items[j][1] = first[k][1] => j <= i
                   IN  <<first[k][1], items[last][2]>>],
               1, Len(first))

(***************************************************************************)
(* rolls.py: Roll                                                          *)
(***************************************************************************)
\* Counter(array)
array_to_spec(array) == Counter(array)

\* array += [die_type] * reps, for the items of spec in order
RECURSIVE spec_to_array(_)
spec_to_array(spec) ==
    IF spec = <<>> THEN <<>>
    ELSE Rep(Head(spec)[1], Head(spec)[2]) \o spec_to_array(Tail(spec))

\* a plausible slip: the two fields of the term swapped
TermSwapped(die, count) == str(die) \o <<"d">> \o str(count)

\* f'{count}d{die}'
Term(die, count) == str(count) \o <<"d">> \o str(die)

\* '+'.join(f'{count}d{die}' for die, count in spec.items())
spec_to_name(spec) ==
    join("+", [i \in DOMAIN spec |-> Term(spec[i][1], spec[i][2])])

\* name_to_spec(name): [err |-> TRUE] when it raises ValueError (a term that
\* does not unpack into count and die, or an int() that fails), and the
\* Counter otherwise
name_to_spec(name) ==
    LET terms           == split(name, "+")
        count_die_pairs == [i \in DOMAIN terms |-> split(terms[i], "d")]
    IN  IF \E i \in DOMAIN count_die_pairs :
               \/ Len(count_die_pairs[i]) # 2
               \/ ~IsInt(count_die_pairs[i][1])
               \/ ~IsInt(count_die_pairs[i][2])
        THEN [err |-> TRUE, spec |-> <<>>]
        ELSE [err |-> FALSE,
              spec |-> DictOf([i \in DOMAIN count_die_pairs |->
                                 <<int(count_die_pairs[i][2]),
                                   int(count_die_pairs[i][1])>>])]

Roll(array, spec, name) == [array |-> array, spec |-> spec, name |-> name]

from_array(array) ==
    LET spec == array_to_spec(array)
        name == spec_to_name(spec)
    IN  Roll(array, spec, name)

from_spec(spec) ==
    LET array == spec_to_array(spec)
        name  == spec_to_name(spec)
    IN  Roll(array, spec, name)

\* from_name(name) where name_to_spec(name) returns
from_name(name) ==
    LET spec  == name_to_spec(name).spec
        array == spec_to_array(spec)
    IN  Roll(array, spec, name)

(***************************************************************************)
(* Python floats, as exact fractions <<numerator, denominator>> in lowest  *)
(* terms with a positive denominator                                       *)
(***************************************************************************)
RECURSIVE GCD(_, _)
GCD(a, b) == IF b = 0 THEN a ELSE GCD(b, a % b)

Abs(a) == IF a < 0 THEN -a ELSE a

\* n / d
Frac(n, d) ==
    LET g == GCD(Abs(n), Abs(d))
        sign == IF d < 0 THEN -1 ELSE 1
    IN  <<sign * (n \div g), sign * (d \div g)>>

FracMul(a, b) == Frac(a[1] * b[1], a[2] * b[2])

FracDiv(a, b) == Frac(a[1] * b[2], a[2] * b[1])

FracSub(a, b) == Frac(a[1] * b[2] - b[1] * a[2], a[2] * b[2])

\* a <= b; the denominators of one roll's probabilities divide one another
FracLe(a, b) ==
    IF b[2] % a[2] = 0 THEN a[1] * (b[2] \div a[2]) <= b[1]
    ELSE IF a[2] % b[2] = 0 THEN a[1] <= b[1] * (a[2] \div b[2])
    ELSE a[1] * b[2] <= b[1] * a[2]

(***************************************************************************)
(* rolls.py: RollStats                                                     *)
(***************************************************************************)
\* a plausible slip: range(1, die_type), which leaves the highest face out
die_results_short(die_type) == [j \in 1..(die_type - 1) |-> j]

\* range(1, die_type + 1)
die_results(die_type) == [j \in 1..die_type |-> j]

\* itertools.product(*dice_rolls): the tuples in the order product yields
RECURSIVE product(_)
product(dice_rolls) ==
    IF dice_rolls = <<>> THEN << <<>> >>
    ELSE LET first == Head(dice_rolls)
             rest  == product(Tail(dice_rolls))
             n     == Len(rest)
         IN  [i \in 1..(Len(first) * n) |->
                 <<first[((i - 1) \div n) + 1]>> \o rest[((i - 1) % n) + 1]]

\* RollStats.calculate_rolls, for a roll with this array
calculate_rolls(array) ==
    LET dice_rolls == [i \in DOMAIN array |-> die_results(array[i])]
        all_rolls  == product(dice_rolls)
    IN  Counter([i \in DOMAIN all_rolls |-> sum(all_rolls[i])])

\* the keys and the values of a dict, in order
keys(d) == [i \in DOMAIN d |-> d[i][1]]

values(d) == [i \in DOMAIN d |-> d[i][2]]

\* Counter.total()
total(rolls) == sum(values(rolls))

\* what eval assigns to fate_roll, fate_probability and avg
eval_fate_roll(rolls) == max(keys(rolls))

eval_fate_probability(rolls) ==
    Frac(Get(rolls, eval_fate_roll(rolls)), total(rolls))

eval_avg(rolls) ==
    Frac(sum([i \in DOMAIN rolls |-> rolls[i][1] * rolls[i][2]]), total(rolls))

\* a plausible slip: a sum equal to the target counted as a success
CountAtLeast(rolls, target) ==
    sum([i \in DOMAIN rolls |-> IF rolls[i][1] >= target THEN rolls[i][2] ELSE 0])

\* sum(count for roll, count in self.rolls.items() if roll > target)
CountAbove(rolls, target) ==
    sum([i \in DOMAIN rolls |-> IF rolls[i][1] > target THEN rolls[i][2] ELSE 0])

\* a plausible slip: the Fate roll's probability left out of the recursion
ExplodeFree(fate_probability, rest) == rest

\* self.fate_probability * self.success_probability(target - self.fate_roll, fate)
Explode(fate_probability, rest) == FracMul(fate_probability, rest)

\* a plausible slip: the two early returns in the other order, so that
\* without explosion nothing is ever counted
RECURSIVE success_probability_fate_first(_, _, _)
success_probability_fate_first(rs, tgt, fate) ==
    IF ~fate
    THEN Frac(0, 1)
    ELSE IF rs.fate_roll > tgt
    THEN Frac(CountAbove(rs.rolls, tgt), total(rs.rolls))
    ELSE Explode(rs.fate_probability,
                 success_probability_fate_first(rs, tgt - rs.fate_roll, fate))

\* RollStats.success_probability(target, fate), for a RollStats rs that has
\* been evaluated
RECURSIVE success_probability(_, _, _)
success_probability(rs, tgt, fate) ==
    IF rs.fate_roll > tgt
    THEN Frac(CountAbove(rs.rolls, tgt), total(rs.rolls))
    ELSE IF ~fate
    THEN Frac(0, 1)
    ELSE Explode(rs.fate_probability,
                 success_probability(rs, tgt - rs.fate_roll, fate))

\* RollStats.average(fate)
average(rs, fate) ==
    IF ~fate THEN rs.avg
    ELSE FracDiv(rs.avg, FracSub(Frac(1, 1), rs.fate_probability))

\* the DataTable _calculate_stats stores in _stats
_calculate_stats(rs) ==
    [ success_probs_fate |->
          [i \in DOMAIN DIFFICULTY_TARGETS |->
              <<DIFFICULTY_TARGETS[i],
                success_probability(rs, DIFFICULTY_TARGETS[i], TRUE)>>],
      success_probs_no_fate |->
          [i \in DOMAIN DIFFICULTY_TARGETS |->
              <<DIFFICULTY_TARGETS[i],
                success_probability(rs, DIFFICULTY_TARGETS[i], FALSE)>>],
      fate_probability |-> rs.fate_probability,
      average_fate |-> average(rs, TRUE),
      average_no_fate |-> average(rs, FALSE) ]

\* the fields eval assigns
Evaluated(array) ==
    LET rolls == calculate_rolls(array)
    IN  [ rolls |-> rolls,
          fate_roll |-> eval_fate_roll(rolls),
          fate_probability |-> eval_fate_probability(rolls),
          avg |-> eval_avg(rolls) ]

(***************************************************************************)
(* probs.py and tables.py                                                  *)
(***************************************************************************)
\* spec_to_str(roll_array): the name of an array
spec_to_str(roll_array) == spec_to_name(array_to_spec(roll_array))

\* roll_spec_stats(roll_spec): the statistics of an array
roll_spec_stats(roll_spec) ==
    LET rs == Evaluated(roll_spec)
    IN  [ name |-> spec_to_str(roll_spec),
          success_probs_fate |-> _calculate_stats(rs).success_probs_fate,
          success_probs_no_fate |-> _calculate_stats(rs).success_probs_no_fate,
          fate_probability |-> rs.fate_probability,
          average_fate |-> average(rs, TRUE),
          average_no_fate |-> average(rs, FALSE) ]

\* range(start, stop)
range(start, stop) == [i \in 1..(stop - start) |-> start + i - 1]

\* the inner dict comprehension of rolls_table: name -> description, for the
\* arrays in the order build_patterns yields them
RollOptions(arrays) ==
    DictOf([i \in DOMAIN arrays |->
               <<spec_to_str(arrays[i]),
                 [array |-> arrays[i],
                  name  |-> spec_to_str(arrays[i]),
                  spec  |-> array_to_spec(arrays[i])]>>])

\* rolls_table(dice_points_range), where every budget has a valid die
rolls_table(dice_points_range) ==
    [i \in DOMAIN dice_points_range |->
        <<dice_points_range[i],
          RollOptions(build_patterns(dice_points_range[i]))>>]

\* a plausible slip: the presence check of stats_table left out
NeverInTable(name, table) == FALSE

\* roll['name'] in table
InTable(name, table) == name \in KeySet(table)

(***************************************************************************)
(* The scores of roll_selection.py: sums of products of floats, exactly, as *)
(* fractions of naturals too wide for one integer; a wide natural is the    *)
(* sequence of its digits in base Base, the lowest first                    *)
(***************************************************************************)
Base == 100 * 100

RECURSIVE Big(_)
Big(n) == IF n = 0 THEN <<>> ELSE <<n % Base>> \o Big(n \div Base)

RECURSIVE BigAddC(_, _, _)
BigAddC(a, b, carry) ==
    IF a = <<>> /\ b = <<>> THEN Big(carry)
    ELSE LET x == (IF a = <<>> THEN 0 ELSE Head(a))
                  + (IF b = <<>> THEN 0 ELSE Head(b)) + carry
         IN  <<x % Base>> \o BigAddC(IF a = <<>> THEN a ELSE Tail(a),
                                     IF b = <<>> THEN b ELSE Tail(b),
                                     x \div Base)

BigAdd(a, b) == BigAddC(a, b, 0)

\* a * m + carry, for a digit m > 0
RECURSIVE BigMulDigit(_, _, _)
BigMulDigit(a, m, carry) ==
    IF a = <<>> THEN Big(carry)
    ELSE LET x == Head(a) * m + carry
         IN  <<x % Base>> \o BigMulDigit(Tail(a), m, x \div Base)

RECURSIVE BigMul(_, _)
BigMul(a, b) ==
    IF a = <<>> \/ b = <<>> THEN <<>>
    ELSE LET rest == BigMul(a, Tail(b))
         IN  BigAdd(IF Head(b) = 0 THEN <<>> ELSE BigMulDigit(a, Head(b), 0),
                    IF rest = <<>> THEN <<>> ELSE <<0>> \o rest)

BigLt(a, b) ==
    IF Len(a) # Len(b) THEN Len(a) < Len(b)
    ELSE \E i \in DOMAIN a :
            /\ a[i] < b[i]
            /\ \A j \in (i + 1)..Len(a) : a[j] = b[j]

RECURSIVE BigSum(_)
BigSum(s) == IF s = <<>> THEN <<>> ELSE BigAdd(Head(s), BigSum(Tail(s)))

\* a float held as <<numerator, denominator>> over wide naturals; the two
\* need not be in lowest terms, so floats are compared by value
Wide(f) == <<Big(f[1]), Big(f[2])>>

WideEq(x, y) == BigMul(x[1], y[2]) = BigMul(y[1], x[2])

WideLt(x, y) == BigLt(BigMul(x[1], y[2]), BigMul(y[1], x[2]))

WideLe(x, y) == ~WideLt(y, x)

LCM(a, b) == (a \div GCD(a, b)) * b

\* a denominator all of these fractions can be written over
RECURSIVE CommonDen(_)
CommonDen(fs) == IF fs = <<>> THEN 1 ELSE LCM(Head(fs)[2], CommonDen(Tail(fs)))

(***************************************************************************)
(* roll_selection.py: Chooser, and choose_best of tables.py                *)
(***************************************************************************)
\* ord(c), for the characters a name is made of
ord(c) == IF c = "+" THEN 43 ELSE IF c = "d" THEN 100 ELSE 48 + DigitValue(c)

\* a < b for two strs: by code point, a proper prefix first
StrLt(a, b) ==
    \E i \in 1..(Min(Len(a), Len(b)) + 1) :
        /\ \A j \in 1..(i - 1) : a[j] = b[j]
        /\ \/ i > Len(a) /\ i <= Len(b)
           \/ i <= Len(a) /\ i <= Len(b) /\ ord(a[i]) < ord(b[i])

\* the rolls table as the Chooser is given it: per budget the list of the
\* Roll objects of its options
tables_from_json(rolls) ==
    [i \in DOMAIN rolls |->
        <<rolls[i][1],
          [j \in DOMAIN rolls[i][2] |->
              Roll(rolls[i][2][j][2].array, rolls[i][2][j][2].spec,
                   rolls[i][2][j][2].name)]>>]

\* _score_functions once the class body has run: each decorated method has
\* added its __name__
_score_functions == {"success_probability", "beat_roll"}

\* the keyword argument each score function takes
Keyword(score_function) ==
    IF score_function = "success_probability" THEN "difficulty" ELSE "roll_to_beat"

\* a plausible slip: the registry check left out
AnyRegistered(score_function, registry) == TRUE

\* score_function in self.score_functions
Registered(score_function, registry) == score_function \in registry

prob_field(fate) == IF fate THEN "success_probs_fate" ELSE "success_probs_no_fate"

\* Chooser.success_probability: self.stats[roll][prob_field][difficulty]
Chooser_success_probability(stats, roll, fate, difficulty) ==
    Wide(Get(Get(stats, roll)[prob_field(fate)], difficulty))

\* Chooser.beat_roll: sum(rp * (1 - orp) for rp, orp in zip(...)), every
\* term written over the product of the two curves' common denominators
beat_roll(stats, roll, fate, roll_to_beat) ==
    LET roll_probs       == values(Get(stats, roll)[prob_field(fate)])
        other_roll_probs == values(Get(stats, roll_to_beat)[prob_field(fate)])
        n  == Min(Len(roll_probs), Len(other_roll_probs))
        da == CommonDen(roll_probs)
        db == CommonDen(other_roll_probs)
        rp(i)  == roll_probs[i][1] * (da \div roll_probs[i][2])
        orp(i) == other_roll_probs[i][1] * (db \div other_roll_probs[i][2])
    IN  <<BigSum([i \in 1..n |-> BigMul(Big(rp(i)), Big(db - orp(i)))]),
          BigMul(Big(da), Big(db))>>

\* key in d
HasKey(d, key) == \E i \in DOMAIN d : d[i][1] = key

\* whether the score function raises KeyError for this roll
ScoreRaises(stats, score_function, roll, fate, difficulty, roll_to_beat) ==
    \/ ~HasKey(stats, roll)
    \/ /\ score_function = "success_probability"
       /\ ~HasKey(Get(stats, roll)[prob_field(fate)], difficulty)
    \/ /\ score_function = "beat_roll"
       /\ ~HasKey(stats, roll_to_beat)

\* the decorated score function: (score, roll)
Score(stats, score_function, roll, fate, difficulty, roll_to_beat) ==
    <<IF score_function = "success_probability"
      THEN Chooser_success_probability(stats, roll, fate, difficulty)
      ELSE beat_roll(stats, roll, fate, roll_to_beat),
      roll>>

\* a plausible slip: the pairs compared on their scores only
TupleGtScoreOnly(x, y) == WideLt(y[1], x[1])

\* x > y for two (score, name) tuples: on the first items that differ
TupleGt(x, y) ==
    IF ~WideEq(x[1], y[1]) THEN WideLt(y[1], x[1]) ELSE StrLt(y[2], x[2])

\* max(items): the first item no later one is greater than
RECURSIVE MaxFrom(_, _)
MaxFrom(best, items) ==
    IF items = <<>> THEN best
    ELSE MaxFrom(IF TupleGt(Head(items), best) THEN Head(items) ELSE best,
                 Tail(items))

Raise(error) == [err |-> error, evals |-> 0, result |-> <<>>]

\* Chooser.choose_best(score_function, dice_points, fate, **{kw: ...}): the
\* error raised ("" for none), the number of calls of the score function and
\* the pair returned
Chooser_choose_best(rolls, stats, registry, score_function, dice_points, fate, kw, difficulty, roll_to_beat) ==
    IF ~HasKey(rolls, dice_points) THEN Raise("KeyError")
    ELSE IF ~Registered(score_function, registry)
    THEN Raise("ValueError: not a valid score_function")
    ELSE IF score_function \notin _score_functions THEN Raise("AttributeError")
    ELSE LET roll_options == Get(rolls, dice_points)
             name(i)      == roll_options[i].name
         IN  IF roll_options = <<>>
             THEN Raise("ValueError: max() arg is an empty sequence")
             ELSE IF kw # Keyword(score_function) THEN Raise("TypeError")
             ELSE IF \E i \in DOMAIN roll_options :
                        ScoreRaises(stats, score_function, name(i), fate,
                                    difficulty, roll_to_beat)
             THEN [Raise("KeyError") EXCEPT !.evals = 1]
             ELSE LET scored == [i \in DOMAIN roll_options |->
                                    Score(stats, score_function, name(i), fate,
                                          difficulty, roll_to_beat)]
                      best   == MaxFrom(Head(scored), Tail(scored))
                  IN  [err |-> "", evals |-> Len(scored),
                       result |-> <<best[2], best[1]>>]

\* choose_best of tables.py, over the tables rolls_table and stats_table build
choose_best(dice_points, difficulty, fate, rolls, stats) ==
    IF ~HasKey(rolls, dice_points) THEN Raise("KeyError")
    ELSE LET roll_options == keys(Get(rolls, dice_points))
         IN  IF \E i \in DOMAIN roll_options :
                    ScoreRaises(stats, "success_probability", roll_options[i],
                                fate, difficulty, <<>>)
             THEN Raise("KeyError")
             ELSE IF roll_options = <<>>
             THEN Raise("ValueError: max() arg is an empty sequence")
             ELSE LET choices == [i \in DOMAIN roll_options |->
                                     <<Chooser_success_probability(
                                           stats, roll_options[i], fate, difficulty),
                                       roll_options[i]>>]
                      best    == MaxFrom(Head(choices), Tail(choices))
                  IN  [err |-> "", evals |-> 0, result |-> <<best[2], best[1]>>]

VARIABLES
    \* the pattern generator: build_patterns(target) run through deduplicate
    pc,        \* "idle", "running", "done" or "error" (max() of an empty tuple)
    target,    \* the argument of build_patterns
    patterns,  \* what _build_patterns has still to yield into deduplicate
    seen,      \* deduplicate's seen set
    yielded,   \* what build_patterns has yielded so far, in order
    \* a call of one of Roll's constructors, or of the chain of conversions
    r_op,      \* "none", "from_array", "from_spec", "from_name", "round_trip"
    r_arg,     \* the argument of the call
    r_err,     \* whether the call raised ValueError
    r_roll,    \* the Roll returned (array, spec, name)
    r_trip,    \* round_trip: the Counter the array was first converted to
    \* a RollStats object
    s_pc,      \* "none", "evaluated" (_stats is None) or "cached"
    s_roll,    \* its roll
    s_rs,      \* rolls, fate_roll, fate_probability and avg, as eval sets them
    s_stats,   \* _stats, when s_pc = "cached"
    s_query,   \* the last call of success_probability: <<target, fate>>
    s_result,  \* what it returned
    \* the table builder: rolls_table, then stats_table one roll per step
    t_pc,      \* "none", "built", "looping", "done" or "error"
    t_rolls,   \* the RollsTable
    t_table,   \* stats_table's table
    t_i,       \* the position of the loop over rolls.values()
    t_j,       \* the position of the loop over roll_options.values()
    t_calls,   \* how many times roll_spec_stats was called, per name
    \* a Chooser, and the last call of a choose_best
    c_pc,      \* "none" or "ready" (constructed)
    c_rolls,   \* self.rolls
    c_registry,\* _score_functions
    c_op,      \* "none", "Chooser.choose_best" or "choose_best" (of tables.py)
    c_call,    \* <<score_function, dice_points, fate, keyword, difficulty, roll_to_beat>>
    c_err,     \* the error the call raised, "" for none
    c_evals,   \* how many times the call called the score function
    c_result,  \* the pair returned: <<name, score>>
    \* one call of success_probability, one frame per step
    x_pc,      \* "idle", "running" or "done"
    x_target,  \* the target of the call
    x_fate,    \* its fate flag
    x_stack,   \* the targets of the calls that have not returned, outermost first
    x_value,   \* what the call that returned last returned, <<>> inside a call
    x_calls    \* how many recursive calls have been made

gen_vars == <<pc, target, patterns, seen, yielded>>

roll_vars == <<r_op, r_arg, r_err, r_roll, r_trip>>

stat_vars == <<s_pc, s_roll, s_rs, s_stats, s_query, s_result>>

tab_vars == <<t_pc, t_rolls, t_table, t_i, t_j, t_calls>>

ch_vars == <<c_pc, c_rolls, c_registry, c_op, c_call, c_err, c_evals, c_result>>

\* self.stats: the Chooser is given the dict stats_table returned, and keeps
\* that very object
c_stats == t_table

rec_vars == <<x_pc, x_target, x_fate, x_stack, x_value, x_calls>>

vars == <<gen_vars, roll_vars, stat_vars, tab_vars, ch_vars, rec_vars>>

(***************************************************************************)
(* The pattern generator, one deduplicate iteration per step               *)
(***************************************************************************)
GenInit ==
    /\ pc = "idle"
    /\ target = 0
    /\ patterns = <<>>
    /\ seen = {}
    /\ yielded = <<>>

\* build_patterns(t), up to the first value asked of the generator
BuildPatterns(t) ==
    /\ pc = "idle"
    /\ target' = t
    /\ seen' = {}
    /\ yielded' = <<>>
    /\ IF valid_values(t) = <<>>
       THEN \* max(valid_values) raises ValueError
            /\ pc' = "error"
            /\ patterns' = <<>>
       ELSE /\ pc' = "running"
            /\ patterns' = _build_patterns(valid_values(t), t, MAX_LEN, MaxGap(t))
    /\ UNCHANGED <<roll_vars, stat_vars, tab_vars, ch_vars, rec_vars>>

\* one iteration of deduplicate's loop
Deduplicate ==
    /\ pc = "running"
    /\ patterns # <<>>
    /\ patterns' = Tail(patterns)
    /\ LET pattern == Head(patterns)
       IN  IF pattern \in seen
           THEN UNCHANGED <<seen, yielded>>
           ELSE /\ seen' = seen \cup {pattern}
                /\ yielded' = Append(yielded, pattern)
    /\ UNCHANGED <<pc, target>>
    /\ UNCHANGED <<roll_vars, stat_vars, tab_vars, ch_vars, rec_vars>>

\* the stream is exhausted: the generator returns
GenReturn ==
    /\ pc = "running"
    /\ patterns = <<>>
    /\ pc' = "done"
    /\ UNCHANGED <<target, patterns, seen, yielded>>
    /\ UNCHANGED <<roll_vars, stat_vars, tab_vars, ch_vars, rec_vars>>

(***************************************************************************)
(* Roll's constructors and conversions, one call per behaviour             *)
(***************************************************************************)
NoRoll == Roll(<<>>, <<>>, <<>>)

RollInit ==
    /\ r_op = "none"
    /\ r_arg = <<>>
    /\ r_err = FALSE
    /\ r_roll = NoRoll
    /\ r_trip = <<>>

\* the budgets build_patterns accepts
Budgets == {t \in 0..MaxBudget : valid_values(t) # <<>>}

\* the arrays the generator hands to the rest of the program
GeneratedArrays == UNION {Range(build_patterns(t)) : t \in Budgets}

\* the Counters of configured faces with at most MAX_LEN dice, their keys in
\* every insertion order
SpecArgs ==
    {s \in UNION {[1..n -> Range(DICE) \X (1..MAX_LEN)] : n \in 1..MAX_LEN} :
        /\ \A i, j \in DOMAIN s : s[i][1] = s[j][1] => i = j
        /\ sum([i \in DOMAIN s |-> s[i][2]]) <= MAX_LEN}

\* the terms names are made of: well formed over configured faces, well
\* formed over a face that is not configured (7), and malformed
NameTerms ==
    { <<"1", "d", "6">>, <<"2", "d", "6">>, <<"1", "d", "3">>,
      <<"1", "d", "2", "0">>, <<"1", "d", "1", "0">>, <<"2", "d", "5">>,
      <<"1", "d", "7">>,
      <<>>, <<"1", "d">>, <<"d", "6">>, <<"1", "6">>,
      <<"1", "d", "6", "d", "3">>, <<"x", "d", "6">>, <<"1", "d", "x">> }

NameArgs ==
    {join("+", ts) : ts \in UNION {[1..n -> NameTerms] : n \in 1..MaxTerms}}

FromArray(array) ==
    /\ r_op = "none"
    /\ r_op' = "from_array"
    /\ r_arg' = array
    /\ r_err' = FALSE
    /\ r_roll' = from_array(array)
    /\ UNCHANGED r_trip
    /\ UNCHANGED <<gen_vars, stat_vars, tab_vars, ch_vars, rec_vars>>

FromSpec(spec) ==
    /\ r_op = "none"
    /\ r_op' = "from_spec"
    /\ r_arg' = spec
    /\ r_err' = FALSE
    /\ r_roll' = from_spec(spec)
    /\ UNCHANGED r_trip
    /\ UNCHANGED <<gen_vars, stat_vars, tab_vars, ch_vars, rec_vars>>

FromName(name) ==
    /\ r_op = "none"
    /\ r_op' = "from_name"
    /\ r_arg' = name
    /\ IF name_to_spec(name).err
       THEN r_err' = TRUE /\ r_roll' = NoRoll
       ELSE r_err' = FALSE /\ r_roll' = from_name(name)
    /\ UNCHANGED r_trip
    /\ UNCHANGED <<gen_vars, stat_vars, tab_vars, ch_vars, rec_vars>>

\* sequence -> multiset -> name -> multiset -> sequence
RoundTrip(array) ==
    /\ r_op = "none"
    /\ r_op' = "round_trip"
    /\ r_arg' = array
    /\ LET spec   == array_to_spec(array)
           name   == spec_to_name(spec)
           parsed == name_to_spec(name)
       IN  /\ r_trip' = spec
           /\ IF parsed.err
              THEN r_err' = TRUE /\ r_roll' = NoRoll
              ELSE /\ r_err' = FALSE
                   /\ r_roll' = Roll(spec_to_array(parsed.spec), parsed.spec, name)
    /\ UNCHANGED <<gen_vars, stat_vars, tab_vars, ch_vars, rec_vars>>

(***************************************************************************)
(* A RollStats object: from_roll, eval again, the stats property and       *)
(* success_probability                                                     *)
(***************************************************************************)
StatInit ==
    /\ s_pc = "none"
    /\ s_roll = NoRoll
    /\ s_rs = <<>>
    /\ s_stats = <<>>
    /\ s_query = <<>>
    /\ s_result = <<>>

\* RollStats.from_roll(Roll.from_array(array))
FromRoll(array) ==
    /\ s_pc = "none"
    /\ s_pc' = "evaluated"
    /\ s_roll' = from_array(array)
    /\ s_rs' = Evaluated(array)
    /\ UNCHANGED <<s_stats, s_query, s_result>>
    /\ UNCHANGED <<gen_vars, roll_vars, tab_vars, ch_vars, rec_vars>>

\* eval() called again: the fields are set anew and the cache is dropped
Eval ==
    /\ s_pc = "cached"
    /\ s_pc' = "evaluated"
    /\ s_rs' = Evaluated(s_roll.array)
    /\ s_stats' = <<>>
    /\ UNCHANGED <<s_roll, s_query, s_result>>
    /\ UNCHANGED <<gen_vars, roll_vars, tab_vars, ch_vars, rec_vars>>

\* the stats property read for the first time: _calculate_stats fills _stats
Stats ==
    /\ s_pc = "evaluated"
    /\ s_pc' = "cached"
    /\ s_stats' = _calculate_stats(s_rs)
    /\ UNCHANGED <<s_roll, s_rs, s_query, s_result>>
    /\ UNCHANGED <<gen_vars, roll_vars, tab_vars, ch_vars, rec_vars>>

SuccessProbability(tgt, fate) ==
    /\ s_pc \in {"evaluated", "cached"}
    /\ s_query' = <<tgt, fate>>
    /\ s_result' = success_probability(s_rs, tgt, fate)
    /\ UNCHANGED <<s_pc, s_roll, s_rs, s_stats>>
    /\ UNCHANGED <<gen_vars, roll_vars, tab_vars, ch_vars, rec_vars>>

(***************************************************************************)
(* The table builder                                                       *)
(***************************************************************************)
TabInit ==
    /\ t_pc = "none"
    /\ t_rolls = <<>>
    /\ t_table = <<>>
    /\ t_i = 0
    /\ t_j = 0
    /\ t_calls = <<>>

\* rolls = rolls_table(range(start, stop))
RollsTable(start, stop) ==
    /\ t_pc = "none"
    /\ IF \E dice_points \in Range(range(start, stop)) : dice_points \notin Budgets
       THEN \* build_patterns raises ValueError
            /\ t_pc' = "error"
            /\ t_rolls' = <<>>
       ELSE /\ t_pc' = "built"
            /\ t_rolls' = rolls_table(range(start, stop))
    /\ UNCHANGED <<t_table, t_i, t_j, t_calls>>
    /\ UNCHANGED <<gen_vars, roll_vars, stat_vars, ch_vars, rec_vars>>

\* stats_table(rolls) is called: table = {}
StatsTable ==
    /\ t_pc = "built"
    /\ t_pc' = "looping"
    /\ t_table' = <<>>
    /\ t_i' = 1
    /\ t_j' = 1
    /\ UNCHANGED <<t_rolls, t_calls>>
    /\ UNCHANGED <<gen_vars, roll_vars, stat_vars, ch_vars, rec_vars>>

\* one iteration of the inner loop
StatsTableRoll ==
    /\ t_pc = "looping"
    /\ t_i <= Len(t_rolls)
    /\ t_j <= Len(t_rolls[t_i][2])
    /\ LET roll == t_rolls[t_i][2][t_j][2]
       IN  IF InTable(roll.name, t_table)
           THEN UNCHANGED <<t_table, t_calls>>
           ELSE /\ t_table' = DictSet(t_table, roll.name, roll_spec_stats(roll.array))
                /\ t_calls' = DictSet(t_calls, roll.name,
                                      IF roll.name \in KeySet(t_calls)
                                      THEN Get(t_calls, roll.name) + 1 ELSE 1)
    /\ t_j' = t_j + 1
    /\ UNCHANGED <<t_pc, t_rolls, t_i>>
    /\ UNCHANGED <<gen_vars, roll_vars, stat_vars, ch_vars, rec_vars>>

\* the inner loop is over: the next budget's options
StatsTableOptions ==
    /\ t_pc = "looping"
    /\ t_i <= Len(t_rolls)
    /\ t_j > Len(t_rolls[t_i][2])
    /\ t_i' = t_i + 1
    /\ t_j' = 1
    /\ UNCHANGED <<t_pc, t_rolls, t_table, t_calls>>
    /\ UNCHANGED <<gen_vars, roll_vars, stat_vars, ch_vars, rec_vars>>

\* return table
StatsTableReturn ==
    /\ t_pc = "looping"
    /\ t_i > Len(t_rolls)
    /\ t_pc' = "done"
    /\ UNCHANGED <<t_rolls, t_table, t_i, t_j, t_calls>>
    /\ UNCHANGED <<gen_vars, roll_vars, stat_vars, ch_vars, rec_vars>>

(***************************************************************************)
(* The Chooser over the tables the table builder has returned              *)
(***************************************************************************)
ChInit ==
    /\ c_pc = "none"
    /\ c_rolls = <<>>
    /\ c_registry = _score_functions
    /\ c_op = "none"
    /\ c_call = <<>>
    /\ c_err = ""
    /\ c_evals = 0
    /\ c_result = <<>>

\* Chooser(rolls, stats), the rolls as lists of Roll objects; with_empty: the
\* rolls table handed over also has a budget, 0, with no options
NewChooser(with_empty) ==
    /\ t_pc = "done"
    /\ c_pc = "none"
    /\ c_op = "none"
    /\ c_pc' = "ready"
    /\ c_rolls' = (IF with_empty THEN << <<0, <<>>>> >> ELSE <<>>)
                      \o tables_from_json(t_rolls)
    /\ UNCHANGED <<c_registry, c_op, c_call, c_err, c_evals, c_result>>
    /\ UNCHANGED <<gen_vars, roll_vars, stat_vars, tab_vars, rec_vars>>

\* chooser.choose_best(score_function, dice_points, fate, **{kw: value})
ChooseBest(score_function, dice_points, fate, kw, difficulty, roll_to_beat) ==
    /\ c_pc = "ready"
    /\ c_op = "none"
    /\ c_op' = "Chooser.choose_best"
    /\ c_call' = <<score_function, dice_points, fate, kw, difficulty, roll_to_beat>>
    /\ LET out == Chooser_choose_best(c_rolls, c_stats, c_registry,
                                      score_function, dice_points, fate,
                                      kw, difficulty, roll_to_beat)
       IN  /\ c_err' = out.err
           /\ c_evals' = out.evals
           /\ c_result' = out.result
    /\ UNCHANGED <<c_pc, c_rolls, c_registry>>
    /\ UNCHANGED <<gen_vars, roll_vars, stat_vars, tab_vars, rec_vars>>

\* choose_best(dice_points, difficulty, fate, rolls, stats) of tables.py, by a
\* caller that works on the tables without a Chooser
TablesChooseBest(dice_points, difficulty, fate) ==
    /\ t_pc = "done"
    /\ c_pc = "none"
    /\ c_op = "none"
    /\ c_op' = "choose_best"
    /\ c_call' = <<"success_probability", dice_points, fate, "difficulty",
                   difficulty, <<>>>>
    /\ LET out == choose_best(dice_points, difficulty, fate, t_rolls, t_table)
       IN  /\ c_err' = out.err
           /\ c_evals' = out.evals
           /\ c_result' = out.result
    /\ UNCHANGED <<c_pc, c_rolls, c_registry>>
    /\ UNCHANGED <<gen_vars, roll_vars, stat_vars, tab_vars, rec_vars>>

\* the caller is done with what the call returned or raised; the Chooser and
\* the tables are ready for the next call
Discard ==
    /\ c_op # "none"
    /\ c_op' = "none"
    /\ c_call' = <<>>
    /\ c_err' = ""
    /\ c_evals' = 0
    /\ c_result' = <<>>
    /\ UNCHANGED <<c_pc, c_rolls, c_registry>>
    /\ UNCHANGED <<gen_vars, roll_vars, stat_vars, tab_vars, rec_vars>>

\* the names asked for as score_function: the two registered ones, one that
\* is no attribute of a Chooser and one that is another method of it; the
\* score functions are asked for with every value of their keyword argument,
\* the other names with one
Criteria == {"success_probability", "beat_roll", "average", "choose_best"}

\* the budgets asked for: those of the table and one it does not have
BudgetArgs(rolls) == KeySet(rolls) \cup {MaxBudget + 1}

\* the difficulties asked for: the configured ones and 0
DifficultyArgs == Range(DIFFICULTY_TARGETS) \cup {0}

\* the rolls to beat asked for: the first options of each budget, and a name
\* that is in no table
RollToBeatArgs(rolls) ==
    UNION {{rolls[i][2][j].name : j \in 1..Min(MaxRivals, Len(rolls[i][2]))} :
              i \in DOMAIN rolls}
        \cup {<<"1", "d", "7">>}

(***************************************************************************)
(* success_probability, one call frame per step                            *)
(***************************************************************************)
RecInit ==
    /\ x_pc = "idle"
    /\ x_target = 0
    /\ x_fate = FALSE
    /\ x_stack = <<>>
    /\ x_value = <<>>
    /\ x_calls = 0

\* a plausible slip: the target lowered by one instead of by the fate roll
LoweredByOne(tgt, fate_roll) == tgt - 1

\* target - self.fate_roll
Lowered(tgt, fate_roll) == tgt - fate_roll

\* the stack once its innermost call has returned
Popped == SubSeq(x_stack, 1, Len(x_stack) - 1)

\* rs.success_probability(tgt, fate) is called
SuccessProbabilityCall(tgt, fate) ==
    /\ s_pc # "none"
    /\ x_pc = "idle"
    /\ x_pc' = "running"
    /\ x_target' = tgt
    /\ x_fate' = fate
    /\ x_stack' = <<tgt>>
    /\ x_value' = <<>>
    /\ x_calls' = 0
    /\ UNCHANGED <<gen_vars, roll_vars, stat_vars, tab_vars, ch_vars>>

\* the body of the innermost call: it returns from one of the two early
\* returns, or calls success_probability with the lowered target
SuccessProbabilityBody ==
    /\ x_pc = "running"
    /\ x_value = <<>>
    /\ LET tgt == x_stack[Len(x_stack)]
       IN  IF s_rs.fate_roll > tgt \/ ~x_fate
           THEN /\ x_value' = (IF s_rs.fate_roll > tgt
                               THEN Frac(CountAbove(s_rs.rolls, tgt), total(s_rs.rolls))
                               ELSE Frac(0, 1))
                /\ x_stack' = Popped
                /\ x_pc' = (IF Popped = <<>> THEN "done" ELSE "running")
                /\ UNCHANGED x_calls
           ELSE /\ x_stack' = Append(x_stack, Lowered(tgt, s_rs.fate_roll))
                /\ x_calls' = x_calls + 1
                /\ UNCHANGED <<x_pc, x_value>>
    /\ UNCHANGED <<x_target, x_fate>>
    /\ UNCHANGED <<gen_vars, roll_vars, stat_vars, tab_vars, ch_vars>>

\* the recursive call has returned to its caller, which returns
\* self.fate_probability times its value
SuccessProbabilityReturn ==
    /\ x_pc = "running"
    /\ x_value # <<>>
    /\ x_value' = Explode(s_rs.fate_probability, x_value)
    /\ x_stack' = Popped
    /\ x_pc' = (IF Popped = <<>> THEN "done" ELSE "running")
    /\ UNCHANGED <<x_target, x_fate, x_calls>>
    /\ UNCHANGED <<gen_vars, roll_vars, stat_vars, tab_vars, ch_vars>>

GenNext ==
    \/ \E t \in 0..MaxBudget : BuildPatterns(t)
    \/ Deduplicate
    \/ GenReturn

RollNext ==
    \/ \E array \in GeneratedArrays : FromArray(array)
    \/ \E spec \in SpecArgs : FromSpec(spec)
    \/ \E name \in NameArgs : FromName(name)
    \/ \E array \in GeneratedArrays : RoundTrip(array)

StatNext ==
    \/ \E array \in GeneratedArrays : FromRoll(array)
    \/ Eval
    \/ Stats
    \/ \E tgt \in 0..MaxTarget, fate \in BOOLEAN : SuccessProbability(tgt, fate)

TabNext ==
    \/ \E start \in 0..MaxBudget, len \in 1..MaxSpan :
          /\ start + len <= MaxBudget + 1
          /\ RollsTable(start, start + len)
    \/ StatsTable
    \/ StatsTableRoll
    \/ StatsTableOptions
    \/ StatsTableReturn

RecNext ==
    \/ \E array \in GeneratedArrays : FromRoll(array)
    \/ \E tgt \in (-MaxBelow)..MaxCallTarget, fate \in BOOLEAN :
          SuccessProbabilityCall(tgt, fate)
    \/ SuccessProbabilityBody
    \/ SuccessProbabilityReturn

ChooserNext ==
    \/ \E with_empty \in BOOLEAN : NewChooser(with_empty)
    \/ \E score_function \in Criteria, dice_points \in BudgetArgs(c_rolls),
          fate \in BOOLEAN, difficulty \in DifficultyArgs :
          /\ score_function = "success_probability" \/ difficulty = MinTarget
          /\ ChooseBest(score_function, dice_points, fate, "difficulty", difficulty, <<>>)
    \/ \E score_function \in Criteria, dice_points \in BudgetArgs(c_rolls),
          fate \in BOOLEAN, roll_to_beat \in RollToBeatArgs(c_rolls) :
          /\ score_function = "beat_roll" \/ roll_to_beat = <<"1", "d", "7">>
          /\ ChooseBest(score_function, dice_points, fate, "roll_to_beat", 0, roll_to_beat)
    \/ \E dice_points \in BudgetArgs(t_rolls), fate \in BOOLEAN,
          difficulty \in DifficultyArgs :
          TablesChooseBest(dice_points, difficulty, fate)
    \/ Discard

\* nothing has been called yet
Init == GenInit /\ RollInit /\ StatInit /\ TabInit /\ ChInit /\ RecInit

SpecPatterns == Init /\ [][GenNext]_vars

SpecRoll == Init /\ [][RollNext]_vars

SpecStats == Init /\ [][StatNext]_vars

SpecTables == Init /\ [][TabNext]_vars

SpecChooser == Init /\ [][TabNext \/ ChooserNext]_vars

\* a call runs to its end: nothing else runs between its steps
SpecRecursion ==
    /\ Init
    /\ [][RecNext]_vars
    /\ WF_vars(SuccessProbabilityBody)
    /\ WF_vars(SuccessProbabilityReturn)

(***************************************************************************)
(* Properties of the pattern generator                                     *)
(***************************************************************************)
Faces == Range(DICE)

IsNonIncreasing(s) == \A i \in 1..(Len(s) - 1) : s[i] >= s[i + 1]

\* the largest configured face that fits in budget t (t >= the smallest face)
LargestFaceUpTo(t) ==
    CHOOSE f \in Faces : f <= t /\ \A g \in Faces : g <= t => g <= f

\* G = T - (largest configured face <= T)
Tolerance(t) == t - LargestFaceUpTo(t)

\* the non-increasing sequences of 1..MAX_LEN faces with T - G <= sum <= T
Compositions(t) ==
    {s \in UNION {[1..n -> Faces] : n \in 1..MAX_LEN} :
        /\ IsNonIncreasing(s)
        /\ t - Tolerance(t) <= sum(s)
        /\ sum(s) <= t}

Yielded == Range(yielded)

\* C1: build_patterns(T), T >= the smallest face, yields exactly the
\* non-increasing sequences of 1..MAX_LEN configured faces whose sum S has
\* T - G <= S <= T: nothing else at any point of the run, none twice, and all
\* of them once the generator has returned.
PatternsExact ==
    /\ pc \in {"running", "done"} =>
          /\ Yielded \subseteq Compositions(target)
          /\ \A i, j \in DOMAIN yielded : yielded[i] = yielded[j] => i = j
    /\ pc = "done" => Yielded = Compositions(target)

\* budget 11 has run to its end: (10,) is there by the tolerance of 1
PatternsExactWitness ==
    /\ pc = "done"
    /\ target = 11
    /\ Len(yielded) = 8
    /\ <<10>> \in Yielded
    /\ <<4, 4, 3>> \in Yielded

\* C2 as stated: budget 10 yields (10,), (6,4) and (6,3), and nothing whose
\* sum is below 10 minus the tolerance of the call.
Budget10AsClaimed ==
    (pc = "done" /\ target = 10) =>
        /\ {<<10>>, <<6, 4>>, <<6, 3>>} \subseteq Yielded
        /\ \A p \in Yielded : sum(p) >= 10 - Tolerance(10)

\* C2 amended: budget 10 yields (10,) and (6,4) but not (6,3): the tolerance of
\* the call is 10 - 10 = 0, so nothing whose sum is below 10 is yielded.
Budget10 ==
    (pc = "done" /\ target = 10) =>
        /\ {<<10>>, <<6, 4>>} \subseteq Yielded
        /\ <<6, 3>> \notin Yielded
        /\ Tolerance(10) = 0
        /\ \A p \in Yielded : sum(p) >= 10 - Tolerance(10)

Budget10Witness == pc = "done" /\ target = 10 /\ Len(yielded) = 4

\* C3: a budget below the smallest configured face ends normally with an
\* empty set of compositions, not in an error.
SmallBudgetEndsEmpty ==
    (pc # "idle" /\ \A f \in Faces : target < f) =>
        /\ pc # "error"
        /\ pc = "done" => yielded = <<>>

(***************************************************************************)
(* Properties of the roll representation                                   *)
(***************************************************************************)
\* the elements of a set of integers, as a descending sequence
RECURSIVE Descending(_)
Descending(S) ==
    IF S = {} THEN <<>>
    ELSE LET m == CHOOSE x \in S : \A y \in S : y <= x
         IN  <<m>> \o Descending(S \ {m})

\* a Counter as the mapping it is, whatever the order of its keys
Mapping(spec) == [die \in KeySet(spec) |-> Get(spec, die)]

\* the sequence form of a multiset: each face count times, faces descending
DescendingArray(spec) ==
    LET faces == Descending(KeySet(spec))
    IN  spec_to_array([i \in DOMAIN faces |-> <<faces[i], Get(spec, faces[i])>>])

\* the name form of a multiset: '<count>d<face>' terms, faces descending
DescendingName(spec) ==
    LET faces == Descending(KeySet(spec))
    IN  join("+", [i \in DOMAIN faces |->
                      str(Get(spec, faces[i])) \o <<"d">> \o str(faces[i])])

\* C5: the name of a multiset depends on its contents only: spec_to_name
\* joins the terms in descending face order whatever the order of the keys.
NameIsDescending ==
    r_op = "from_spec" => r_roll.name = DescendingName(r_arg)

\* C6: for every array of the generator, array -> multiset -> name ->
\* multiset -> array gives back the array, and the multiset parsed from the
\* name is the multiset the name was built from.
RoundTripExact ==
    r_op = "round_trip" =>
        /\ ~r_err
        /\ r_roll.array = r_arg
        /\ Mapping(r_roll.spec) = Mapping(r_trip)
        /\ Mapping(r_trip) = [die \in Range(r_arg) |->
                                 Cardinality({i \in DOMAIN r_arg : r_arg[i] = die})]

\* (6, 6, 3) has gone through '2d6+1d3' and back
RoundTripWitness ==
    /\ r_op = "round_trip"
    /\ r_arg = <<6, 6, 3>>
    /\ r_trip = << <<6, 2>>, <<3, 1>> >>
    /\ r_roll.name = <<"2", "d", "6", "+", "1", "d", "3">>
    /\ r_roll.array = <<6, 6, 3>>

\* C7: every Roll a constructor returns holds three forms that agree and are
\* canonical: the array is non-increasing and is the expansion of the
\* multiset, and the name is the descending-face name of the multiset.
FormsCanonical ==
    (r_op \in {"from_array", "from_spec", "from_name"} /\ ~r_err) =>
        /\ IsNonIncreasing(r_roll.array)
        /\ r_roll.array = DescendingArray(r_roll.spec)
        /\ r_roll.name = DescendingName(r_roll.spec)

\* a term that is a count, one 'd' and a face, both integers
WellFormedTerm(term) ==
    \E k \in DOMAIN term :
        /\ term[k] = "d"
        /\ IsInt(SubSeq(term, 1, k - 1))
        /\ IsInt(SubSeq(term, k + 1, Len(term)))

HasMalformedTerm(name) ==
    \E i \in DOMAIN split(name, "+") : ~WellFormedTerm(split(name, "+")[i])

HasUnconfiguredFace(name) ==
    \E i \in DOMAIN split(name, "+") :
        LET term == split(name, "+")[i]
        IN  /\ WellFormedTerm(term)
            /\ int(split(term, "d")[2]) \notin Faces

\* C8: name_to_spec raises, and returns no multiset, for every name with a
\* malformed term and for every name with a face that is not configured.
BadNameRaises ==
    (r_op = "from_name" /\ (HasMalformedTerm(r_arg) \/ HasUnconfiguredFace(r_arg)))
        => (r_err /\ r_roll = NoRoll)

\* the half of C8 that the code keeps: a malformed term always raises
MalformedNameRaises ==
    (r_op = "from_name" /\ HasMalformedTerm(r_arg)) => (r_err /\ r_roll = NoRoll)

(***************************************************************************)
(* Properties of the table builder                                         *)
(***************************************************************************)
\* the names of the compositions of a roll table
TableNames(rolls) == UNION {KeySet(rolls[i][2]) : i \in DOMAIN rolls}

\* C4: during stats_table the statistics computation is invoked exactly once
\* for each distinct name of the roll table, however many budgets hold it: no
\* name is ever computed a second time, a stored record is never overwritten,
\* and at the end every name of the roll table has a record.
StatsComputedOnce ==
    /\ [](\A k \in DOMAIN t_calls : t_calls[k][2] = 1)
    /\ [](KeySet(t_calls) = KeySet(t_table))
    /\ [](t_pc = "done" => KeySet(t_table) = TableNames(t_rolls))
    /\ [][\A k \in DOMAIN t_table :
             k \in DOMAIN t_table' /\ t_table'[k] = t_table[k]]_vars

\* stats_table has returned over a roll table with a name at two budgets
StatsComputedOnceWitness ==
    /\ t_pc = "done"
    /\ \E i, k \in DOMAIN t_rolls :
          /\ i # k
          /\ \E name \in KeySet(t_rolls[i][2]) \cap KeySet(t_rolls[k][2]) :
                Get(t_calls, name) = 1

(***************************************************************************)
(* Properties of the statistics                                            *)
(***************************************************************************)
RECURSIVE Product(_)
Product(s) == IF s = <<>> THEN 1 ELSE Head(s) * Product(Tail(s))

\* the tuples (x1, ..., xk) with 1 <= xi <= fi
Outcomes(faces) ==
    {x \in [DOMAIN faces -> 1..max(faces)] : \A i \in DOMAIN faces : x[i] <= faces[i]}

\* the number of them that sum to s
Ways(faces, s) == Cardinality({x \in Outcomes(faces) : sum(x) = s})

\* C9: the distribution calculate_rolls computes for (f1, ..., fk) maps each
\* sum s to the number of tuples (x1, ..., xk), 1 <= xi <= fi, that sum to s;
\* the counts add up to f1 * ... * fk; the largest key, the fate roll, is
\* f1 + ... + fk and has count 1, so the fate probability is
\* 1 / (f1 * ... * fk): 1/6 for (6,), 1/36 for (6, 6).
DistributionExact ==
    s_pc # "none" =>
        LET faces == s_roll.array
            rolls == s_rs.rolls
        IN  /\ KeySet(rolls) = {s \in 0..(sum(faces) + 1) : Ways(faces, s) > 0}
            /\ \A s \in KeySet(rolls) : Get(rolls, s) = Ways(faces, s)
            /\ total(rolls) = Product(faces)
            /\ s_rs.fate_roll = sum(faces)
            /\ \A s \in KeySet(rolls) : s <= s_rs.fate_roll
            /\ Get(rolls, s_rs.fate_roll) = 1
            /\ s_rs.fate_probability = <<1, Product(faces)>>
            /\ faces = <<6>> => s_rs.fate_probability = <<1, 6>>
            /\ faces = <<6, 6>> => s_rs.fate_probability = <<1, 36>>

\* (6, 6) has been evaluated
DistributionExactWitness ==
    /\ s_pc = "evaluated"
    /\ s_roll.array = <<6, 6>>
    /\ total(s_rs.rolls) = 36
    /\ s_rs.fate_roll = 12
    /\ s_rs.fate_probability = <<1, 36>>

\* C10: for a fixed exploding mode success_probability is non-increasing in
\* the target: over the configured targets 3..21 as _calculate_stats stores
\* them, for all t1 <= t2, and from each target of a call to the one below.
SuccessNonIncreasing ==
    /\ s_pc = "cached" =>
          \A i, j \in DOMAIN DIFFICULTY_TARGETS :
              i <= j =>
                  /\ FracLe(s_stats.success_probs_fate[j][2],
                            s_stats.success_probs_fate[i][2])
                  /\ FracLe(s_stats.success_probs_no_fate[j][2],
                            s_stats.success_probs_no_fate[i][2])
    /\ (s_query # <<>> /\ s_query[1] > 0) =>
          FracLe(s_result, success_probability(s_rs, s_query[1] - 1, s_query[2]))

\* a d6 with its curve stored: the target crosses the fate roll 6 (5/6, ...,
\* 1/6 at 5, 1/6 at 6, 5/36 at 7) and then 12
SuccessNonIncreasingWitness ==
    /\ s_pc = "cached"
    /\ s_roll.array = <<6>>
    /\ Get(s_stats.success_probs_fate, 5) = <<1, 6>>
    /\ Get(s_stats.success_probs_fate, 6) = <<1, 6>>
    /\ Get(s_stats.success_probs_fate, 7) = <<5, 36>>
    /\ Get(s_stats.success_probs_fate, 13) = <<5, 216>>
    /\ Get(s_stats.success_probs_no_fate, 6) = <<0, 1>>

\* C11: for every composition and target the success probability with
\* explosion is at least the one without; the two are equal whenever the
\* fate roll is greater than the target, and the one without explosion is 0
\* whenever the fate roll is not greater than the target. Over the stored
\* curves and over the target of a call.
FateNeverWorse ==
    /\ s_pc = "cached" =>
          \A i \in DOMAIN DIFFICULTY_TARGETS :
              LET t  == DIFFICULTY_TARGETS[i]
                  pT == s_stats.success_probs_fate[i][2]
                  pF == s_stats.success_probs_no_fate[i][2]
              IN  /\ FracLe(pF, pT)
                  /\ s_rs.fate_roll > t => pT = pF
                  /\ ~(s_rs.fate_roll > t) => pF = <<0, 1>>
    /\ s_query # <<>> =>
          LET t     == s_query[1]
              other == success_probability(s_rs, t, ~s_query[2])
              pT    == IF s_query[2] THEN s_result ELSE other
              pF    == IF s_query[2] THEN other ELSE s_result
          IN  /\ FracLe(pF, pT)
              /\ s_rs.fate_roll > t => pT = pF
              /\ ~(s_rs.fate_roll > t) => pF = <<0, 1>>

\* (6, 4) with its curves stored: equal below the fate roll 10 (1/4 at 7),
\* and 1/24 * 21/24 against 0 at 13
FateNeverWorseWitness ==
    /\ s_pc = "cached"
    /\ s_roll.array = <<6, 4>>
    /\ s_rs.fate_roll = 10
    /\ Get(s_stats.success_probs_fate, 7) = <<1, 4>>
    /\ Get(s_stats.success_probs_no_fate, 7) = <<1, 4>>
    /\ Get(s_stats.success_probs_fate, 13) = <<7, 192>>
    /\ Get(s_stats.success_probs_no_fate, 13) = <<0, 1>>
    /\ s_query # <<>> /\ s_query[1] = 13 /\ s_query[2] /\ s_result = <<7, 192>>

\* the number of outcomes with a sum strictly above t, and the number with a
\* sum of at most t
Above(faces, t) == Cardinality({x \in Outcomes(faces) : sum(x) > t})

AtMost(faces, t) == Cardinality({x \in Outcomes(faces) : sum(x) <= t})

\* C12: without explosion success_probability(t) is the number of outcomes
\* with a sum strictly greater than t over the number of outcomes, so that it
\* and P(result <= t) add up to 1; a sum equal to the target is not a success:
\* 3/6 for (6,) at target 3.
SuccessIsStrictlyAbove ==
    /\ (s_query # <<>> /\ ~s_query[2]) =>
          LET faces == s_roll.array
              t     == s_query[1]
          IN  /\ s_result = Frac(Above(faces, t), Product(faces))
              /\ Above(faces, t) + AtMost(faces, t) = Product(faces)
              /\ FracSub(Frac(1, 1), s_result) = Frac(AtMost(faces, t), Product(faces))
              /\ (faces = <<6>> /\ t = 3) => s_result = <<1, 2>>
    /\ s_pc = "cached" =>
          \A i \in DOMAIN DIFFICULTY_TARGETS :
              s_stats.success_probs_no_fate[i][2]
                  = Frac(Above(s_roll.array, DIFFICULTY_TARGETS[i]),
                         Product(s_roll.array))

\* (6,) asked for target 3 without explosion: 4, 5 and 6 succeed, 3 does not
SuccessIsStrictlyAboveWitness ==
    /\ s_query = <<3, FALSE>>
    /\ s_roll.array = <<6>>
    /\ s_result = <<1, 2>>
    /\ Above(<<6>>, 3) = 3

(***************************************************************************)
(* Properties of the choosers                                              *)
(***************************************************************************)
\* the tables the last call worked on, and the names of the options of the
\* budget it asked for
CallStats == IF c_op = "choose_best" THEN t_table ELSE c_stats

CallBudgets == IF c_op = "choose_best" THEN KeySet(t_rolls) ELSE KeySet(c_rolls)

CallOptions ==
    IF c_op = "choose_best" THEN Range(keys(Get(t_rolls, c_call[2])))
    ELSE {roll.name : roll \in Range(Get(c_rolls, c_call[2]))}

\* the call named a registered criterion, a budget of the table with options
\* and a value its criterion has a score for
CallScorable ==
    /\ c_op # "none"
    /\ c_call[1] \in {"success_probability", "beat_roll"}
    /\ c_call[2] \in CallBudgets
    /\ CallOptions # {}
    /\ \/ /\ c_call[1] = "success_probability"
          /\ c_call[4] = "difficulty"
          /\ c_call[5] \in MinTarget..MaxTarget
       \/ /\ c_call[1] = "beat_roll"
          /\ c_call[4] = "roll_to_beat"
          /\ c_call[6] \in KeySet(CallStats)

\* the criterion's score of an option
CallScore(name) ==
    IF c_call[1] = "success_probability"
    THEN Wide(Get(IF c_call[3] THEN Get(CallStats, name).success_probs_fate
                  ELSE Get(CallStats, name).success_probs_no_fate, c_call[5]))
    ELSE beat_roll(CallStats, name, c_call[3], c_call[6])

\* C13: for a budget with options and a registered criterion choose_best
\* returns a pair (name, score) where the name is an option of the budget, the
\* score is the criterion's score of that option, no option has a strictly
\* higher score, and every other option with the same score has a name that
\* is lexicographically smaller.
ChooseBestIsMax ==
    CallScorable =>
        /\ c_err = ""
        /\ c_result # <<>>
        /\ c_result[1] \in CallOptions
        /\ c_result[2] = CallScore(c_result[1])
        /\ \A name \in CallOptions :
              /\ WideLe(CallScore(name), c_result[2])
              /\ (WideEq(CallScore(name), c_result[2]) /\ name # c_result[1])
                     => StrLt(name, c_result[1])

\* a call of the Chooser has returned the greatest name among several options
\* that share the highest score, an earlier option among them
ChooseBestIsMaxWitness ==
    /\ c_op = "Chooser.choose_best"
    /\ CallScorable
    /\ c_err = ""
    /\ WideLt(Wide(<<0, 1>>), c_result[2])
    /\ LET roll_options == Get(c_rolls, c_call[2])
       IN  \E i, j \in DOMAIN roll_options :
              /\ i < j
              /\ roll_options[j].name = c_result[1]
              /\ WideEq(CallScore(roll_options[i].name), c_result[2])

\* C14: Chooser.choose_best called with a name that is not registered, for a
\* budget of the rolls table, with options or without, raises the
\* invalid-criterion ValueError: it returns nothing and has called no score
\* function; the registry holds the two decorated names, and the call leaves
\* it and the tables as they were.
UnregisteredRaises ==
    /\ [](c_registry = {"success_probability", "beat_roll"})
    /\ []((/\ c_op = "Chooser.choose_best"
           /\ c_call[1] \notin {"success_probability", "beat_roll"}
           /\ c_call[2] \in KeySet(c_rolls))
          => /\ c_err = "ValueError: not a valid score_function"
             /\ c_result = <<>>
             /\ c_evals = 0)
    /\ [][(/\ c_op = "none"
           /\ c_op' = "Chooser.choose_best"
           /\ c_err' = "ValueError: not a valid score_function")
          => UNCHANGED <<c_registry, c_rolls, c_stats, t_rolls, t_table>>]_vars

\* the name of another method of the Chooser has been asked for, for the
\* budget that has no options, of a table that has budgets with options
UnregisteredRaisesWitness ==
    /\ c_op = "Chooser.choose_best"
    /\ c_call[1] = "choose_best"
    /\ c_call[2] = 0
    /\ Get(c_rolls, 0) = <<>>
    /\ Len(c_rolls) > 1
    /\ c_err = "ValueError: not a valid score_function"
    /\ c_evals = 0

\* P(roll > roll_to_beat) for two arrays rolled once, without explosion
BeatProbability(array, other) ==
    LET rolls       == calculate_rolls(array)
        other_rolls == calculate_rolls(other)
    IN  <<Big(sum([i \in DOMAIN other_rolls |->
                      other_rolls[i][2] * CountAbove(rolls, other_rolls[i][1])])),
          Big(total(rolls) * total(other_rolls))>>

\* C15: the beat_roll score of a roll against a roll to beat, summed over the
\* targets 3..21, is a lower bound of the probability that the roll's result
\* exceeds the other's: it is at most 1 and, where the results are single
\* throws, at most the share of the pairs of outcomes the roll wins. Stated
\* of the score choose_best returns with its best roll.
BeatRollIsLowerBound ==
    (c_op = "Chooser.choose_best" /\ c_call[1] = "beat_roll" /\ c_err = "") =>
        /\ WideLe(c_result[2], Wide(<<1, 1>>))
        /\ ~c_call[3] =>
              WideLe(c_result[2],
                     BeatProbability(from_name(c_result[1]).array,
                                     from_name(c_call[6]).array))

(***************************************************************************)
(* Properties of the recursion of success_probability                      *)
(***************************************************************************)
\* the least k >= 0 with F > t - k * F
LeastK(F, t) ==
    CHOOSE k \in 0..(Abs(t) + 1) :
        /\ F > t - k * F
        /\ \A j \in 0..(k - 1) : ~(F > t - j * F)

RECURSIVE FracPow(_, _)
FracPow(f, k) == IF k = 0 THEN Frac(1, 1) ELSE FracMul(f, FracPow(f, k - 1))

\* what holds of a call of success_probability at each of its steps
RecursionBounded ==
    x_pc # "idle" =>
        LET F == s_rs.fate_roll
            k == LeastK(F, x_target)
        IN  /\ F >= 1
            /\ x_stack # <<>> => x_stack[1] = x_target
            /\ \A i \in 1..(Len(x_stack) - 1) : x_stack[i + 1] = x_stack[i] - F
            /\ Len(x_stack) <= x_calls + 1
            /\ x_calls <= k
            /\ ~x_fate => x_calls = 0
            /\ x_target >= 0 => k * F <= x_target
            /\ (x_pc = "done" /\ x_fate) =>
                  /\ x_calls = k
                  /\ x_value = FracMul(FracPow(s_rs.fate_probability, k),
                                       Frac(CountAbove(s_rs.rolls, x_target - k * F),
                                            total(s_rs.rolls)))

\* C16: for every composition with fate roll F and every target t the
\* recursion of success_probability with explosion ends: each recursive call
\* lowers the target by exactly F >= 1, there are k recursive calls, k the
\* least k >= 0 with F > t - k * F (at most t / F for t >= 0), and the value
\* returned is fate_probability^k * P(sum > t - k * F).
RecursionTerminates ==
    /\ []RecursionBounded
    /\ (x_pc = "running") ~> (x_pc = "done")

\* (3,) asked for target 10 with explosion: three recursive calls, down to
\* target 1, and 1/27 * 2/3 returned
RecursionTerminatesWitness ==
    /\ x_pc = "done"
    /\ s_roll.array = <<3>>
    /\ x_target = 10
    /\ x_fate
    /\ x_calls = 3
    /\ x_value = <<2, 81>>

\* the steps return what success_probability returns at once
StepwiseAgrees ==
    x_pc = "done" => x_value = success_probability(s_rs, x_target, x_fate)

====
